---------------------------- MODULE Spec2Model ----------------------------
(***************************************************************************)
(* Model of the signal-analysis scripts ActividadFormativa2SyS.py (signal  *)
(* generators, discrete transform, the three Fourier property verifiers)   *)
(* and ActividadFormativa3SyS.py (the slide navigator).                    *)
(*                                                                         *)
(* Numbers.  Python floats are IEEE binary64.  Where the code compares or  *)
(* truncates a float (np.arange grid points against the pulse edges,       *)
(* int(desplazamiento/dt)) the result depends on the rounding of the last  *)
(* bit, so those computations are modelled bit for bit: a float is an      *)
(* exact dyadic value  (-1)^neg * mag * 2^ex  with mag an arbitrary size   *)
(* natural, and every float operation is the exact operation followed by   *)
(* round-to-nearest-even to 53 bits.  Spectral values are compared only    *)
(* up to a tolerance in the code, so they are modelled in exact            *)
(* arithmetic: a complex number is an element of the cyclotomic ring       *)
(* Z[w]/den, w = exp(-2*pi*i/ord), held in canonical form.                 *)
(***************************************************************************)
EXTENDS Integers, Sequences, FiniteSets, TLC

(***************************************************************************)
(* Integer helpers                                                         *)
(***************************************************************************)
Abs(n) == IF n < 0 THEN -n ELSE n

Sign(n) == IF n < 0 THEN -1 ELSE IF n > 0 THEN 1 ELSE 0

Min2(a, b) == IF a <= b THEN a ELSE b

Max2(a, b) == IF a >= b THEN a ELSE b

RECURSIVE GCD(_, _)
GCD(a, b) == IF b = 0 THEN Abs(a) ELSE GCD(b, a % Abs(b))

RECURSIVE Pow2(_)
Pow2(k) == IF k = 0 THEN 1 ELSE 2 * Pow2(k - 1)

\* The function f itself.  TLC evaluates a function constructor anew at every
\* application; comparing it evaluates it once, for all its arguments.
Once(f) == IF f = f THEN f ELSE f

\* Sum of f[i] for i in lo..hi, by halving (the recursion stays shallow).
RECURSIVE SumRange(_, _, _)
SumRange(f, lo, hi) ==
    IF lo > hi THEN 0
    ELSE IF lo = hi THEN f[lo]
    ELSE LET mid == (lo + hi) \div 2
         IN  SumRange(f, lo, mid) + SumRange(f, mid + 1, hi)

(***************************************************************************)
(* Exact rationals <<num, den>>, den > 0, in lowest terms                  *)
(***************************************************************************)
Rat(n, d) ==
    LET g == GCD(n, d)
        s == IF d < 0 THEN -1 ELSE 1
    IN  <<s * (n \div g), s * (d \div g)>>

RatMul(a, b) == Rat(a[1] * b[1], a[2] * b[2])

RatDiv(a, b) == Rat(a[1] * b[2], a[2] * b[1])

RatAdd(a, b) == Rat(a[1] * b[2] + b[1] * a[2], a[2] * b[2])

RatSub(a, b) == Rat(a[1] * b[2] - b[1] * a[2], a[2] * b[2])

RatLess(a, b) == a[1] * b[2] < b[1] * a[2]

RatLeq(a, b) == a[1] * b[2] <= b[1] * a[2]

RatAbs(a) == <<Abs(a[1]), a[2]>>

RatInt(n) == <<n, 1>>

(***************************************************************************)
(* Arbitrary size naturals: sequences of limbs in base 2^15, least         *)
(* significant limb first, no leading zero limb (zero is <<>>).  TLC's     *)
(* integers are 32 bits wide; a product of two limbs plus a carry fits.    *)
(***************************************************************************)
LimbBits == 15

LimbBase == Pow2(LimbBits)

RECURSIVE BNorm(_)
BNorm(a) ==
    IF Len(a) = 0 THEN a
    ELSE IF a[Len(a)] # 0 THEN a
    ELSE BNorm(SubSeq(a, 1, Len(a) - 1))

RECURSIVE BFromInt(_)
BFromInt(n) ==
    IF n = 0 THEN <<>> ELSE <<n % LimbBase>> \o BFromInt(n \div LimbBase)

RECURSIVE BToIntFrom(_, _)
BToIntFrom(a, i) ==
    IF i > Len(a) THEN 0 ELSE a[i] + LimbBase * BToIntFrom(a, i + 1)

BToInt(a) == BToIntFrom(a, 1)

BLimb(a, i) == IF i >= 1 /\ i <= Len(a) THEN a[i] ELSE 0

RECURSIVE BAddFrom(_, _, _, _)
BAddFrom(a, b, i, carry) ==
    IF i > Len(a) /\ i > Len(b)
    THEN (IF carry = 0 THEN <<>> ELSE <<carry>>)
    ELSE LET s == BLimb(a, i) + BLimb(b, i) + carry
         IN  <<s % LimbBase>> \o BAddFrom(a, b, i + 1, s \div LimbBase)

BAdd(a, b) == BAddFrom(a, b, 1, 0)

\* a - b for a >= b
RECURSIVE BSubFrom(_, _, _, _)
BSubFrom(a, b, i, borrow) ==
    IF i > Len(a) THEN <<>>
    ELSE LET d == BLimb(a, i) - BLimb(b, i) - borrow
         IN  IF d < 0
             THEN <<d + LimbBase>> \o BSubFrom(a, b, i + 1, 1)
             ELSE <<d>> \o BSubFrom(a, b, i + 1, 0)

BSub(a, b) == BNorm(BSubFrom(a, b, 1, 0))

\* -1, 0, 1 as a < b, a = b, a > b
BCmp(a, b) ==
    IF Len(a) # Len(b) THEN (IF Len(a) < Len(b) THEN -1 ELSE 1)
    ELSE LET dif == {i \in 1..Len(a) : a[i] # b[i]}
         IN  IF dif = {} THEN 0
             ELSE LET top == CHOOSE i \in dif : \A j \in dif : j <= i
                  IN  IF a[top] < b[top] THEN -1 ELSE 1

\* a * c for a limb-sized c
RECURSIVE BMulSmallFrom(_, _, _, _)
BMulSmallFrom(a, c, i, carry) ==
    IF i > Len(a)
    THEN (IF carry = 0 THEN <<>> ELSE <<carry>>)
    ELSE LET s == a[i] * c + carry
         IN  <<s % LimbBase>> \o BMulSmallFrom(a, c, i + 1, s \div LimbBase)

BMulSmall(a, c) == IF c = 0 THEN <<>> ELSE BMulSmallFrom(a, c, 1, 0)

RECURSIVE BMulFrom(_, _, _)
BMulFrom(a, b, j) ==
    IF j > Len(b) THEN <<>>
    ELSE LET rest == BMulFrom(a, b, j + 1)
         IN  BAdd(BMulSmall(a, b[j]),
                  IF Len(rest) = 0 THEN <<>> ELSE <<0>> \o rest)

BMul(a, b) == BNorm(BMulFrom(a, b, 1))

BitLenSmall(n) == Cardinality({k \in 0..(LimbBits - 1) : Pow2(k) <= n})

BitLen(a) ==
    IF Len(a) = 0 THEN 0
    ELSE LimbBits * (Len(a) - 1) + BitLenSmall(a[Len(a)])

\* a * 2^k
BShl(a, k) ==
    IF Len(a) = 0 THEN a
    ELSE [i \in 1..(k \div LimbBits) |-> 0]
         \o BMulSmall(a, Pow2(k % LimbBits))

\* floor(a / 2^k)
BShr(a, k) ==
    LET drop == k \div LimbBits
        bits == k % LimbBits
        p    == Pow2(bits)
        up   == Pow2(LimbBits - bits)
    IN  IF drop >= Len(a) THEN <<>>
        ELSE BNorm([i \in 1..(Len(a) - drop) |->
                      (a[i + drop] \div p) + (BLimb(a, i + drop + 1) % p) * up])

\* a mod 2^k
BLowBits(a, k) ==
    LET keep == k \div LimbBits
        bits == k % LimbBits
    IN  BNorm([i \in 1..Min2(Len(a), keep + 1) |->
                 IF i <= keep THEN a[i] ELSE a[i] % Pow2(bits)])

\* the largest q in lo..hi with q * b <= r
RECURSIVE BQuotDigit(_, _, _, _)
BQuotDigit(r, b, lo, hi) ==
    IF lo = hi THEN lo
    ELSE LET mid == (lo + hi + 1) \div 2
         IN  IF BCmp(BMulSmall(b, mid), r) <= 0
             THEN BQuotDigit(r, b, mid, hi)
             ELSE BQuotDigit(r, b, lo, mid - 1)

\* long division of a by b # 0, limb by limb from the top: [q, r]
RECURSIVE BDivModFrom(_, _, _)
BDivModFrom(a, b, i) ==
    IF i > Len(a) THEN [q |-> <<>>, r |-> <<>>]
    ELSE LET high == BDivModFrom(a, b, i + 1)
             cur  == BNorm(<<a[i]>> \o high.r)
             d    == BQuotDigit(cur, b, 0, LimbBase - 1)
         IN  [q |-> <<d>> \o high.q, r |-> BSub(cur, BMulSmall(b, d))]

BDivMod(a, b) ==
    LET qr == BDivModFrom(a, b, 1) IN [q |-> BNorm(qr.q), r |-> qr.r]

(***************************************************************************)
(* IEEE binary64 floats (Python float, numpy float64) as exact dyadic      *)
(* values [neg, mag, ex] = (-1)^neg * mag * 2^ex.  Every operation is the  *)
(* exact one followed by FRound: round to nearest, ties to even, to        *)
(* FloatMantBits significant bits.  Exponent range limits (overflow,       *)
(* subnormals) are not reached by the values used here.                    *)
(***************************************************************************)
FloatMantBits == 53

FZero == [neg |-> FALSE, mag |-> <<>>, ex |-> 0]

FIsZero(a) == Len(a.mag) = 0

BOdd(a) == Len(a) > 0 /\ a[1] % 2 = 1

\* mag * 2^ex (plus a nonzero fraction below the last bit when sticky)
FRound(neg, mag, ex, sticky) ==
    LET len == BitLen(mag)
    IN  IF len = 0 THEN FZero
        ELSE IF len <= FloatMantBits THEN [neg |-> neg, mag |-> mag, ex |-> ex]
        ELSE LET sh   == len - FloatMantBits
                 q    == BShr(mag, sh)
                 r    == BLowBits(mag, sh)
                 half == BShl(<<1>>, sh - 1)
                 c    == BCmp(r, half)
                 up   == c > 0 \/ (c = 0 /\ (sticky \/ BOdd(q)))
             IN  [neg |-> neg,
                  mag |-> IF up THEN BAdd(q, <<1>>) ELSE q,
                  ex  |-> ex + sh]

\* the exact sum of two dyadic values (no rounding)
DAdd(a, b) ==
    LET e  == Min2(a.ex, b.ex)
        ma == BShl(a.mag, a.ex - e)
        mb == BShl(b.mag, b.ex - e)
        c  == BCmp(ma, mb)
    IN  IF a.neg = b.neg THEN [neg |-> a.neg, mag |-> BAdd(ma, mb), ex |-> e]
        ELSE IF c = 0 THEN FZero
        ELSE IF c > 0 THEN [neg |-> a.neg, mag |-> BSub(ma, mb), ex |-> e]
        ELSE [neg |-> b.neg, mag |-> BSub(mb, ma), ex |-> e]

FNeg(a) == IF FIsZero(a) THEN a ELSE [a EXCEPT !.neg = ~a.neg]

DSub(a, b) == DAdd(a, FNeg(b))

\* -1, 0, 1: the sign of the exact value
DSign(a) == IF FIsZero(a) THEN 0 ELSE IF a.neg THEN -1 ELSE 1

FAdd(a, b) == LET s == DAdd(a, b) IN FRound(s.neg, s.mag, s.ex, FALSE)

FSub(a, b) == FAdd(a, FNeg(b))

FMul(a, b) ==
    IF FIsZero(a) \/ FIsZero(b) THEN FZero
    ELSE FRound(a.neg # b.neg, BMul(a.mag, b.mag), a.ex + b.ex, FALSE)

\* a / b for b # 0: the quotient is taken to at least two bits more than
\* the mantissa, the remainder is the sticky bit.
FDiv(a, b) ==
    IF FIsZero(a) THEN FZero
    ELSE LET k  == Max2(0, BitLen(b.mag) + FloatMantBits + 2 - BitLen(a.mag))
             qr == BDivMod(BShl(a.mag, k), b.mag)
         IN  FRound(a.neg # b.neg, qr.q, a.ex - b.ex - k, Len(qr.r) # 0)

FLeq(a, b) == DSign(DSub(a, b)) <= 0

FGeq(a, b) == DSign(DSub(a, b)) >= 0

FEq(a, b) == DSign(DSub(a, b)) = 0

\* float(n) for an integer n (|n| < 2^31 is exact)
FFromInt(n) == [neg |-> n < 0, mag |-> BFromInt(Abs(n)), ex |-> 0]

\* the float a decimal literal n/d denotes (the nearest float), e.g. 0.01
FFromRat(r) == FDiv(FFromInt(r[1]), FFromInt(r[2]))

\* int(a): truncation toward zero
FInt(a) ==
    LET m == IF a.ex >= 0 THEN BShl(a.mag, a.ex) ELSE BShr(a.mag, -a.ex)
    IN  IF a.neg THEN -BToInt(m) ELSE BToInt(m)

(***************************************************************************)
(* Complex numbers in exact arithmetic.  With w = exp(-2*pi*i/ord), a      *)
(* value is (co[1] + co[2]*w + ... + co[n]*w^(n-1)) / den, n = Totient(ord)*)
(* the degree of the ord-th cyclotomic polynomial Phi(ord).  Reducing      *)
(* modulo Phi(ord) makes the coefficients unique, so two values are equal  *)
(* as complex numbers exactly when CxEq holds.                             *)
(***************************************************************************)
Totient(m) == Cardinality({k \in 1..m : GCD(k, m) = 1})

\* Polynomials: sequences of integer coefficients, constant term first.
PolyTrim(p) ==
    LET nz == {i \in 1..Len(p) : p[i] # 0}
    IN  IF nz = {} THEN <<>>
        ELSE SubSeq(p, 1, CHOOSE i \in nz : \A j \in nz : j <= i)

\* p with its leading term cancelled by a multiple of the monic m
PolyStep(p, m) ==
    LET c   == p[Len(p)]
        off == Len(p) - Len(m)
    IN  [i \in 1..(Len(p) - 1) |->
           IF i > off THEN p[i] - c * m[i - off] ELSE p[i]]

RECURSIVE PolyRem(_, _)
PolyRem(p, m) == IF Len(p) < Len(m) THEN p ELSE PolyRem(PolyStep(p, m), m)

RECURSIVE PolyQuot(_, _)
PolyQuot(p, m) ==
    IF Len(p) < Len(m) THEN <<>>
    ELSE PolyQuot(PolyStep(p, m), m) \o <<p[Len(p)]>>

\* the n-th cyclotomic polynomial: x^n - 1 divided by Phi(d), d | n, d < n
RECURSIVE Phi(_)
RECURSIVE PhiDivide(_, _, _)
PhiDivide(p, n, d) ==
    IF d >= n THEN p
    ELSE IF n % d = 0 THEN PhiDivide(PolyQuot(p, Phi(d)), n, d + 1)
    ELSE PhiDivide(p, n, d + 1)

Phi(n) ==
    PhiDivide([i \in 1..(n + 1) |->
                 IF i = 1 THEN -1 ELSE IF i = n + 1 THEN 1 ELSE 0], n, 1)

PolyPad(p, n) == [i \in 1..n |-> IF i <= Len(p) THEN p[i] ELSE 0]

\* Phi for the orders the bounded inputs need, computed once
PhiTab == [n \in 1..48 |-> Phi(n)]

PhiOf(n) == IF n \in DOMAIN PhiTab THEN PhiTab[n] ELSE Phi(n)

\* canonical coefficients of sum_i vec[i] * w^(i-1), vec of length ord
CxCanon(ord, vec) ==
    LET t == PolyTrim(vec)
        n == Totient(ord)
    IN  IF Len(t) <= n THEN PolyPad(t, n)
        ELSE PolyPad(PolyRem(t, PhiOf(ord)), n)

Cx(ord, vec, den) ==
    [ord |-> ord, co |-> Once(CxCanon(ord, Once(vec))), den |-> den]

\* the coefficient vector of length ord of a canonical value
CxVec(a) == Once(PolyPad(a.co, a.ord))

\* the integer n as a complex number
CxInt(ord, n) == Cx(ord, [i \in 1..ord |-> IF i = 1 THEN n ELSE 0], 1)

\* w^e = exp(-2*pi*i*e/ord)
CxUnit(ord, e) == Cx(ord, [i \in 1..ord |-> IF i - 1 = e % ord THEN 1 ELSE 0], 1)

\* the same number, written with w' = exp(-2*pi*i/m), m a multiple of a.ord
CxEmbed(a, m) ==
    LET step == m \div a.ord
        v    == CxVec(a)
    IN  Cx(m, [i \in 1..m |->
                 IF (i - 1) % step = 0 THEN v[(i - 1) \div step + 1] ELSE 0],
           a.den)

CxAdd(a, b) ==
    [ord |-> a.ord,
     co  |-> Once([i \in 1..Len(a.co) |-> a.co[i] * b.den + b.co[i] * a.den]),
     den |-> a.den * b.den]

CxSub(a, b) ==
    [ord |-> a.ord,
     co  |-> Once([i \in 1..Len(a.co) |-> a.co[i] * b.den - b.co[i] * a.den]),
     den |-> a.den * b.den]

\* a times the rational r
CxScale(r, a) ==
    [ord |-> a.ord, co |-> Once([i \in 1..Len(a.co) |-> r[1] * a.co[i]]),
     den |-> r[2] * a.den]

\* product of two values of the same order (cyclic convolution, reduced)
CxMul(a, b) ==
    LET va == CxVec(a)
        vb == CxVec(b)
        m  == a.ord
    IN  Cx(m, [i \in 1..m |->
                 SumRange([j \in 1..m |-> va[j] * vb[((i - j) % m) + 1]], 1, m)],
           a.den * b.den)

\* complex conjugate: w^j -> w^(-j)
CxConj(a) ==
    LET v == CxVec(a)
        m == a.ord
    IN  Cx(m, [i \in 1..m |-> v[((1 - i) % m) + 1]], a.den)

CxIsZero(a) == \A i \in 1..Len(a.co) : a.co[i] = 0

CxEq(a, b) == CxIsZero(CxSub(a, b))

\* a real (rational) value: its rational, and its absolute value
CxIsReal(a) == \A i \in 2..Len(a.co) : a.co[i] = 0

CxRe(a) == Rat(a.co[1], a.den)

(***************************************************************************)
(* numpy arrays are functions on 0..N-1.  Samples of a signal are exact    *)
(* rationals <<num, den>>.                                                 *)
(***************************************************************************)
ALen(a) == Cardinality(DOMAIN a)

RECURSIVE LcmDen(_, _, _)
LcmDen(s, lo, hi) ==
    IF lo > hi THEN 1
    ELSE IF lo = hi THEN s[lo][2]
    ELSE LET mid == (lo + hi) \div 2
             a   == LcmDen(s, lo, mid)
             b   == LcmDen(s, mid + 1, hi)
         IN  (a \div GCD(a, b)) * b

\* np.fft.fft(s)[k] = sum_n s[n] * exp(-2*pi*i*k*n/N).  The powers k*n mod N
\* that occur are the multiples of gcd(k, N).
FFTBin(s, k) ==
    LET N == ALen(s)
        D == LcmDen(s, 0, N - 1)
        g == GCD(k, N)
    IN  Cx(N,
           [i \in 1..N |->
              IF (i - 1) % g # 0 THEN 0
              ELSE SumRange([n \in 0..(N - 1) |->
                               IF (k * n) % N = i - 1
                               THEN s[n][1] * (D \div s[n][2]) ELSE 0],
                            0, N - 1)],
           D)

fft(s) == [k \in DOMAIN s |-> FFTBin(s, k)]

\* np.fft.fftfreq(n, d): [0, 1, ..., (n-1)//2, -(n//2), ..., -1] / (d*n)
fftfreq(n, d) ==
    LET val == RatDiv(RatInt(1), RatMul(RatInt(n), d))
    IN  [k \in 0..(n - 1) |->
           RatMul(RatInt(IF k <= (n - 1) \div 2 THEN k ELSE k - n), val)]

\* np.argsort(a): position j of the result holds the index of the j-th
\* smallest element (equal elements in index order).
ArgsortRank(a, k) ==
    Cardinality({i \in DOMAIN a :
                   RatLess(a[i], a[k]) \/ (a[i] = a[k] /\ i < k)})

argsort(a) == [j \in DOMAIN a |-> CHOOSE k \in DOMAIN a : ArgsortRank(a, k) = j]

\* np.roll(a, shift): element i moves to (i + shift) mod N
roll(a, shift) == [i \in DOMAIN a |-> a[(i - shift) % ALen(a)]]

\* np.exp(-2j * np.pi * x) for a rational number x of turns
ExpTurns(x) == CxUnit(x[2], x[1] % x[2])

\* product of two complex values of orders that may differ
CxLcm(a, b) == (a \div GCD(a, b)) * b

CxTimes(a, b) ==
    LET m == CxLcm(a.ord, b.ord) IN CxMul(CxEmbed(a, m), CxEmbed(b, m))

CxMinus(a, b) ==
    LET m == CxLcm(a.ord, b.ord) IN CxSub(CxEmbed(a, m), CxEmbed(b, m))

(***************************************************************************)
(* ActividadFormativa2SyS.py                                               *)
(***************************************************************************)
\* A faulty variant: the spectrum left in FFT order while the frequencies
\* are sorted.
calcular_transformada_sin_permutar(senal_t, dt) ==
    LET N            == ALen(senal_t)
        espectro0    == [k \in 0..(N - 1) |-> CxScale(dt, fft(senal_t)[k])]
        frecuencias0 == fftfreq(N, dt)
        idx          == argsort(frecuencias0)
    IN  [frecuencias |-> [j \in 0..(N - 1) |-> frecuencias0[idx[j]]],
         espectro    |-> espectro0]

\* A faulty variant: the transform without its dt factor.
calcular_transformada_sin_dt(senal_t, dt) ==
    LET N            == ALen(senal_t)
        espectro0    == fft(senal_t)
        frecuencias0 == fftfreq(N, dt)
        idx          == argsort(frecuencias0)
    IN  [frecuencias |-> [j \in 0..(N - 1) |-> frecuencias0[idx[j]]],
         espectro    |-> [j \in 0..(N - 1) |-> espectro0[idx[j]]]]

\* calcular_transformada_fourier(senal_t, dt): (frecuencias, espectro)
calcular_transformada_fourier(senal_t, dt) ==
    LET N            == ALen(senal_t)
        espectro0    == [k \in 0..(N - 1) |-> CxScale(dt, fft(senal_t)[k])]
        frecuencias0 == fftfreq(N, dt)
        idx          == argsort(frecuencias0)
    IN  [frecuencias |-> [j \in 0..(N - 1) |-> frecuencias0[idx[j]]],
         espectro    |-> [j \in 0..(N - 1) |-> espectro0[idx[j]]]]

\* A faulty variant: the two coefficients exchanged.
CombinacionLinealCruzada(a, senal1, b, senal2) ==
    [n \in DOMAIN senal1 |->
       RatAdd(RatMul(RatInt(b), senal1[n]), RatMul(RatInt(a), senal2[n]))]

\* a*senal1 + b*senal2, sample by sample
CombinacionLineal(a, senal1, b, senal2) ==
    [n \in DOMAIN senal1 |->
       RatAdd(RatMul(RatInt(a), senal1[n]), RatMul(RatInt(b), senal2[n]))]

\* verificar_linealidad(t, senal1, senal2, dt): the locals it computes;
\* diferencia is espectro_combinada - espectro_lineal, of which the printed
\* error is the largest absolute value.
verificar_linealidad(senal1, senal2, dt) ==
    LET a == 2
        b == 3
        senal_combinada    == CombinacionLineal(a, senal1, b, senal2)
        espectro1          == calcular_transformada_fourier(senal1, dt).espectro
        espectro2          == calcular_transformada_fourier(senal2, dt).espectro
        tf                 == calcular_transformada_fourier(senal_combinada, dt)
        espectro_lineal    ==
            [j \in DOMAIN espectro1 |->
               CxAdd(CxScale(RatInt(a), espectro1[j]),
                     CxScale(RatInt(b), espectro2[j]))]
    IN  [senal_combinada    |-> senal_combinada,
         frecuencias        |-> tf.frecuencias,
         espectro_combinada |-> tf.espectro,
         espectro_lineal    |-> espectro_lineal,
         diferencia         |-> [j \in DOMAIN espectro1 |->
                                   CxSub(tf.espectro[j], espectro_lineal[j])]]

\* int(desplazamiento/dt) in float arithmetic
MuestrasDesplazamiento(desplazamiento, dt) ==
    FInt(FDiv(FFromRat(desplazamiento), FFromRat(dt)))

(***************************************************************************)
(* The inputs explored.                                                    *)
(***************************************************************************)
\* longest signal of the transform, shift and scaling checks
MaxN == 4

\* longest signals of the linearity check
MaxNLineal == 3

\* the shifts are the multiples of dt/3 up to MaxTercios thirds either way
MaxTercios == 10

\* largest numerator and denominator of a scale factor
MaxFactor == 2

\* the short float grids have MaxMitad steps at most on each side of 0
MaxMitad == 2

\* the navigator is followed for MaxRedibujos renderings
MaxRedibujos == 30

\* time steps dt: a dyadic one, and 0.1, which no float holds exactly
Pasos == {<<1, 2>>, <<1, 10>>}

Amplitudes == {RatInt(-1), RatInt(0), RatInt(1)}

SenalesDe(n) == [0..(n - 1) -> Amplitudes]

Senales == UNION {SenalesDe(n) : n \in 1..MaxN}

\* the second signal of a linear combination: 0/1 samples, like a pulse
SenalesPulsoDe(n) == [0..(n - 1) -> {RatInt(0), RatInt(1)}]

Desplazamientos(paso) ==
    {RatMul(Rat(h, 3), paso) : h \in (-MaxTercios)..MaxTercios}

Factores == {Rat(p, q) : p \in 1..MaxFactor, q \in 1..MaxFactor}

\* int(desplazamiento/dt) for the shifts explored, computed once
MuestrasTab ==
    [p \in UNION {{<<d, paso>> : d \in Desplazamientos(paso)} : paso \in Pasos}
       |-> MuestrasDesplazamiento(p[1], p[2])]

Muestras(desplazamiento, paso) ==
    IF <<desplazamiento, paso>> \in DOMAIN MuestrasTab
    THEN MuestrasTab[<<desplazamiento, paso>>]
    ELSE MuestrasDesplazamiento(desplazamiento, paso)

\* verificar_desplazamiento_tiempo(t, senal, dt, desplazamiento): the
\* locals it computes; diferencia is espectro_desplazado - espectro_teorico,
\* of which the printed error is the largest absolute value.
verificar_desplazamiento_tiempo(senal, paso, desplazamiento) ==
    LET senal_desplazada    == roll(senal, Muestras(desplazamiento, paso))
        tf                  == calcular_transformada_fourier(senal, paso)
        espectro_desplazado ==
            calcular_transformada_fourier(senal_desplazada, paso).espectro
        factor_teorico      ==
            [j \in DOMAIN senal |->
               ExpTurns(RatMul(tf.frecuencias[j], desplazamiento))]
        espectro_teorico    ==
            [j \in DOMAIN senal |-> CxTimes(factor_teorico[j], tf.espectro[j])]
    IN  [senal_desplazada    |-> senal_desplazada,
         frecuencias         |-> tf.frecuencias,
         espectro            |-> tf.espectro,
         espectro_desplazado |-> espectro_desplazado,
         espectro_teorico    |-> espectro_teorico,
         diferencia          |->
             [j \in DOMAIN senal |->
                CxMinus(espectro_desplazado[j], espectro_teorico[j])]]

\* np.interp(x, xp, fp, left, right) at one point x, for increasing xp:
\* left below xp[0], right above the last xp, fp[j] at a sample point, the
\* chord between the two neighbouring samples elsewhere.
interp(x, xp, fp, left, right) ==
    LET n == ALen(xp)
    IN  IF RatLess(x, xp[0]) THEN left
        ELSE IF RatLess(xp[n - 1], x) THEN right
        ELSE LET below == {i \in 0..(n - 1) : RatLeq(xp[i], x)}
                 j     == CHOOSE i \in below : \A h \in below : h <= i
             IN  IF j = n - 1 THEN fp[j]
                 ELSE IF xp[j] = x THEN fp[j]
                 ELSE LET slope == RatDiv(RatSub(fp[j + 1], fp[j]),
                                          RatSub(xp[j + 1], xp[j]))
                      IN  RatAdd(RatMul(slope, RatSub(x, xp[j])), fp[j])

\* np.abs of a spectrum value that is real; the other magnitudes are not
\* rational and are left unevaluated
AbsReal(c) == RatAbs(CxRe(c))

\* verificar_escalamiento_frecuencia(t, senal, dt, factor) for factor > 0:
\* the locals it computes.  Of the magnitudes it compares, the model keeps
\* the pair at the position j0 of the frequency 0, where both are real:
\* frecuencias_teoricas is 0 there too, np.interp returns the sample itself
\* at a sample point, and only that sample of np.abs(espectro) is evaluated.
verificar_escalamiento_frecuencia(malla, senal, paso, factor) ==
    LET t_escalado        == [i \in DOMAIN malla |-> RatMul(malla[i], factor)]
        senal_escalada    ==
            [i \in DOMAIN malla |->
               interp(malla[i], t_escalado, senal, RatInt(0), RatInt(0))]
        tf                == calcular_transformada_fourier(senal, paso)
        espectro_escalado ==
            calcular_transformada_fourier(senal_escalada, paso).espectro
        frecuencias_teoricas ==
            [j \in DOMAIN malla |-> RatMul(tf.frecuencias[j], factor)]
        j0                == CHOOSE j \in DOMAIN malla :
                                tf.frecuencias[j] = RatInt(0)
    IN  [t_escalado           |-> t_escalado,
         senal_escalada       |-> senal_escalada,
         frecuencias          |-> tf.frecuencias,
         espectro             |-> tf.espectro,
         espectro_escalado    |-> espectro_escalado,
         frecuencias_teoricas |-> frecuencias_teoricas,
         j0                   |-> j0,
         magnitud_escalado_0  |-> AbsReal(espectro_escalado[j0]),
         magnitud_teorico_0   |->
             RatMul(RatDiv(RatInt(1), RatAbs(factor)),
                    interp(tf.frecuencias[j0], frecuencias_teoricas,
                           [j \in DOMAIN malla |-> AbsReal(tf.espectro[j])],
                           RatInt(0), RatInt(0)))]

\* ceil(a) as an integer
FCeil(a) ==
    LET m == FInt(a)
    IN  IF ~a.neg /\ ~FEq(FFromInt(m), a) THEN m + 1 ELSE m

\* A variant: every value computed as start + i*step, as
\* start + np.arange(n)*step would.
arange_producto(start, stop, step) ==
    LET len == Max2(0, FCeil(FDiv(FSub(stop, start), step)))
    IN  [i \in 0..(len - 1) |-> FAdd(start, FMul(FFromInt(i), step))]

\* np.arange(start, stop, step) for floats: ceil((stop - start)/step)
\* values, the first two start and start + step, the others
\* start + i*delta with delta = (start + step) - start.
arange(start, stop, step) ==
    LET len    == Max2(0, FCeil(FDiv(FSub(stop, start), step)))
        second == FAdd(start, step)
        delta  == FSub(second, start)
    IN  [i \in 0..(len - 1) |->
           IF i = 0 THEN start
           ELSE IF i = 1 THEN second
           ELSE FAdd(start, FMul(FFromInt(i), delta))]

\* A faulty variant: the upper endpoint left out.
generar_pulso_semiabierto(malla, ancho, amplitud, centro) ==
    LET mitad    == FDiv(ancho, FFromInt(2))
        inferior == FSub(centro, mitad)
        superior == FAdd(centro, mitad)
    IN  [senal |-> [i \in DOMAIN malla |->
                      IF FGeq(malla[i], inferior) /\ ~FGeq(malla[i], superior)
                      THEN amplitud ELSE RatInt(0)],
         t     |-> malla]

\* generar_pulso_rectangular(t, ancho, amplitud, centro) on a float grid:
\* the array it returns and the caller's grid after the call (np.zeros_like
\* allocates a new array, so the grid is the one passed in)
generar_pulso_rectangular(malla, ancho, amplitud, centro) ==
    LET mitad    == FDiv(ancho, FFromInt(2))
        inferior == FSub(centro, mitad)
        superior == FAdd(centro, mitad)
    IN  [senal |-> [i \in DOMAIN malla |->
                      IF FGeq(malla[i], inferior) /\ FLeq(malla[i], superior)
                      THEN amplitud ELSE RatInt(0)],
         t     |-> malla]

\* The entry of calcular_transformada_fourier(senal_t, dt) at the frequency
\* 0: fftfreq is 0 at bin k0, argsort puts bin k0 at the position that is
\* its rank, and both returned arrays hold bin k0's values there.
EntradaFrecuenciaCero(senal_t, paso) ==
    LET N            == ALen(senal_t)
        frecuencias0 == fftfreq(N, paso)
        k0           == CHOOSE k \in 0..(N - 1) : frecuencias0[k] = RatInt(0)
    IN  [j          |-> ArgsortRank(frecuencias0, k0),
         frecuencia |-> frecuencias0[k0],
         espectro   |-> CxScale(paso, FFTBin(senal_t, k0))]

(***************************************************************************)
(* ActividadFormativa3SyS.py: NavegadorGraficos.  self is the record       *)
(* [indice, figura_abierta, dibujada, redibujos]: dibujada is the slide    *)
(* the figure shows, redibujos counts the renderings.                      *)
(***************************************************************************)
NumDiapositivas == 5

mostrar_diapositiva(self) ==
    [self EXCEPT !.dibujada = self.indice, !.redibujos = @ + 1]

NavegadorInit ==
    mostrar_diapositiva([indice |-> 0, figura_abierta |-> TRUE,
                         dibujada |-> -1, redibujos |-> 0])

\* A faulty variant: the index moved without wrapping around.
navegar_sin_modulo(self, key) ==
    IF key = "right"
    THEN mostrar_diapositiva([self EXCEPT !.indice = self.indice + 1])
    ELSE IF key = "left"
    THEN mostrar_diapositiva([self EXCEPT !.indice = self.indice - 1])
    ELSE IF key = "q"
    THEN [self EXCEPT !.figura_abierta = FALSE]
    ELSE self

navegar(self, key) ==
    IF key = "right"
    THEN mostrar_diapositiva(
             [self EXCEPT !.indice = (self.indice + 1) % NumDiapositivas])
    ELSE IF key = "left"
    THEN mostrar_diapositiva(
             [self EXCEPT !.indice = (self.indice - 1) % NumDiapositivas])
    ELSE IF key = "q"
    THEN [self EXCEPT !.figura_abierta = FALSE]
    ELSE self

(***************************************************************************)
(* State.  m_t, m_dt, m_senal1, m_senal2 are the arguments the caller      *)
(* holds (main's t, dt and signals), llamada is the last call made and its *)
(* remaining arguments, salida what that call computed.  indice,           *)
(* figura_abierta, dibujada, redibujos are the navigator and its figure.   *)
(* Nada marks what a scenario does not use.                                *)
(***************************************************************************)
VARIABLES m_t, m_dt, m_senal1, m_senal2, llamada, salida,
          indice, figura_abierta, dibujada, redibujos

vars == <<m_t, m_dt, m_senal1, m_senal2, llamada, salida,
          indice, figura_abierta, dibujada, redibujos>>

Nada == <<>>

Inicio == [f |-> "inicio"]

SinNavegador ==
    /\ indice = Nada
    /\ figura_abierta = Nada
    /\ dibujada = Nada
    /\ redibujos = Nada

NavegadorIgual == UNCHANGED <<indice, figura_abierta, dibujada, redibujos>>

\* the grid start*dt, (start + 1)*dt, ... of n exact values
MallaExacta(n, paso, inicio) ==
    [i \in 0..(n - 1) |-> RatMul(RatInt(inicio + i), paso)]

\* main's grid: np.arange(-5, 5, dt) with dt = 0.01
PasoMain == <<1, 100>>

MallaMain == Once(arange(FFromInt(-5), FFromInt(5), FFromRat(PasoMain)))

\* a short float grid: np.arange(-k*dt, k*dt, dt)
MallaCorta(k, paso) ==
    arange(FFromRat(RatMul(RatInt(-k), paso)),
           FFromRat(RatMul(RatInt(k), paso)), FFromRat(paso))

(***************************************************************************)
(* calcular_transformada_fourier on a signal.                              *)
(***************************************************************************)
InitTransformada ==
    /\ m_t = Nada
    /\ m_dt \in Pasos
    /\ m_senal1 \in Senales
    /\ m_senal2 = Nada
    /\ llamada = Inicio
    /\ salida = Nada
    /\ SinNavegador

Transformar ==
    /\ llamada = Inicio
    /\ llamada' = [f |-> "calcular_transformada_fourier"]
    /\ salida' = calcular_transformada_fourier(m_senal1, m_dt)
    /\ UNCHANGED <<m_t, m_dt, m_senal1, m_senal2>>
    /\ NavegadorIgual

NextTransformada == Transformar

SpecTransformada == InitTransformada /\ [][NextTransformada]_vars

(***************************************************************************)
(* verificar_linealidad on two signals of the same length.                 *)
(***************************************************************************)
InitLineal ==
    /\ m_t = Nada
    /\ m_dt \in Pasos
    /\ \E n \in 1..MaxNLineal :
         /\ m_senal1 \in SenalesDe(n)
         /\ m_senal2 \in SenalesPulsoDe(n)
    /\ llamada = Inicio
    /\ salida = Nada
    /\ SinNavegador

Linealidad ==
    /\ llamada = Inicio
    /\ llamada' = [f |-> "verificar_linealidad"]
    /\ salida' = verificar_linealidad(m_senal1, m_senal2, m_dt)
    /\ UNCHANGED <<m_t, m_dt, m_senal1, m_senal2>>
    /\ NavegadorIgual

NextLineal == Linealidad

SpecLineal == InitLineal /\ [][NextLineal]_vars

(***************************************************************************)
(* verificar_desplazamiento_tiempo on a signal and a shift.                *)
(***************************************************************************)
InitDesplazamiento == InitTransformada

Desplazar ==
    /\ llamada = Inicio
    /\ \E desplazamiento \in Desplazamientos(m_dt) :
         /\ llamada' = [f |-> "verificar_desplazamiento_tiempo",
                        desplazamiento |-> desplazamiento]
         /\ salida' =
              verificar_desplazamiento_tiempo(m_senal1, m_dt, desplazamiento)
    /\ UNCHANGED <<m_t, m_dt, m_senal1, m_senal2>>
    /\ NavegadorIgual

NextDesplazamiento == Desplazar

SpecDesplazamiento == InitDesplazamiento /\ [][NextDesplazamiento]_vars

(***************************************************************************)
(* verificar_escalamiento_frecuencia on an exact grid, with a factor > 0   *)
(* (np.interp needs increasing sample points).                             *)
(***************************************************************************)
InitEscalamiento ==
    /\ m_dt \in Pasos
    /\ m_senal1 \in Senales
    /\ \E inicio \in {-(ALen(m_senal1) \div 2), 0} :
         m_t = MallaExacta(ALen(m_senal1), m_dt, inicio)
    /\ m_senal2 = Nada
    /\ llamada = Inicio
    /\ salida = Nada
    /\ SinNavegador

Escalar ==
    /\ llamada = Inicio
    /\ \E factor \in Factores :
         /\ llamada' = [f |-> "verificar_escalamiento_frecuencia",
                        factor |-> factor]
         /\ salida' =
              verificar_escalamiento_frecuencia(m_t, m_senal1, m_dt, factor)
    /\ UNCHANGED <<m_t, m_dt, m_senal1, m_senal2>>
    /\ NavegadorIgual

NextEscalamiento == Escalar

SpecEscalamiento == InitEscalamiento /\ [][NextEscalamiento]_vars

(***************************************************************************)
(* main's first steps: a float grid from np.arange, a rectangular pulse on *)
(* it, the transform of the pulse.  The grids are main's and short ones,   *)
(* the pulse parameters main's (2, 1, 0) and others near them.             *)
(***************************************************************************)
Anchos == {RatInt(0), Rat(1, 5), Rat(1, 2), RatInt(1), RatInt(2)}

Centros == {RatInt(0), Rat(1, 2), Rat(-1, 2), Rat(1, 10)}

AmplitudesPulso == {RatInt(1), RatInt(2), RatInt(-1)}

InitPulso ==
    /\ \/ /\ m_dt = PasoMain
          /\ m_t = MallaMain
       \/ \E paso \in Pasos, k \in 1..MaxMitad :
            /\ m_dt = paso
            /\ m_t = MallaCorta(k, paso)
    /\ m_senal1 = Nada
    /\ m_senal2 = Nada
    /\ llamada = Inicio
    /\ salida = Nada
    /\ SinNavegador

GenerarPulso ==
    /\ llamada = Inicio
    /\ \E ancho \in Anchos, amplitud \in AmplitudesPulso, centro \in Centros :
         LET r == generar_pulso_rectangular(m_t, FFromRat(ancho), amplitud,
                                            FFromRat(centro))
         IN  /\ m_senal1' = r.senal
             /\ m_t' = r.t
             /\ llamada' = [f |-> "generar_pulso_rectangular",
                            ancho |-> ancho, amplitud |-> amplitud,
                            centro |-> centro]
    /\ UNCHANGED <<m_dt, m_senal2, salida>>
    /\ NavegadorIgual

TransformarPulso ==
    /\ llamada.f = "generar_pulso_rectangular"
    /\ llamada' = [llamada EXCEPT !.f = "calcular_transformada_fourier"]
    /\ salida' = EntradaFrecuenciaCero(m_senal1, m_dt)
    /\ UNCHANGED <<m_t, m_dt, m_senal1, m_senal2>>
    /\ NavegadorIgual

NextPulso == GenerarPulso \/ TransformarPulso

SpecPulso == InitPulso /\ [][NextPulso]_vars

(***************************************************************************)
(* NavegadorGraficos: construction, then key_press_event callbacks while   *)
(* the figure is open.                                                     *)
(***************************************************************************)
Teclas == {"right", "left", "q", "a"}

InitNavegador ==
    /\ m_t = Nada
    /\ m_dt = Nada
    /\ m_senal1 = Nada
    /\ m_senal2 = Nada
    /\ llamada = Inicio
    /\ salida = Nada
    /\ indice = NavegadorInit.indice
    /\ figura_abierta = NavegadorInit.figura_abierta
    /\ dibujada = NavegadorInit.dibujada
    /\ redibujos = NavegadorInit.redibujos

Tecla ==
    /\ figura_abierta
    /\ \E key \in Teclas :
         LET self == [indice |-> indice, figura_abierta |-> figura_abierta,
                      dibujada |-> dibujada, redibujos |-> redibujos]
             r    == navegar(self, key)
         IN  /\ key \in {"right", "left"} => redibujos < MaxRedibujos
             /\ llamada' = [f |-> "navegar", key |-> key]
             /\ indice' = r.indice
             /\ figura_abierta' = r.figura_abierta
             /\ dibujada' = r.dibujada
             /\ redibujos' = r.redibujos
    /\ UNCHANGED <<m_t, m_dt, m_senal1, m_senal2, salida>>

NextNavegador == Tecla

SpecNavegador == InitNavegador /\ [][NextNavegador]_vars

(***************************************************************************)
(* Properties.  What they compare the program's results to is defined here *)
(* from the mathematics, not from the program's operators.                 *)
(***************************************************************************)
\* sum of the complex values f[lo..hi], all of one order
RECURSIVE CxSuma(_, _, _)
CxSuma(f, lo, hi) ==
    IF lo = hi THEN f[lo] ELSE CxAdd(CxSuma(f, lo, hi - 1), f[hi])

RECURSIVE RatSuma(_, _, _)
RatSuma(f, lo, hi) ==
    IF lo > hi THEN RatInt(0)
    ELSE IF lo = hi THEN f[lo]
    ELSE LET mid == (lo + hi) \div 2
         IN  RatAdd(RatSuma(f, lo, mid), RatSuma(f, mid + 1, hi))

\* the rational r as a complex number
CxRat(ord, r) == CxScale(r, CxInt(ord, 1))

\* frequency of DFT bin k of n samples at step paso
BinFrecuencia(k, n, paso) ==
    RatDiv(RatInt(IF 2 * k < n THEN k ELSE k - n), RatMul(RatInt(n), paso))

\* value of DFT bin k: paso * sum_n s[n] * exp(-i*2*pi*k*n/N)
BinValor(s, paso, k) ==
    LET N == ALen(s)
    IN  CxScale(paso,
                CxSuma([n \in 0..(N - 1) |->
                          CxScale(s[n], CxEmbed(ExpTurns(Rat(k * n, N)), N))],
                       0, N - 1))

HechaTransformada == llamada.f = "calcular_transformada_fourier"

\* C3: calcular_transformada_fourier returns N frequencies in strictly
\* ascending order and N spectral values; every DFT bin k of 0..N-1 has its
\* frequency at exactly one output position, and that position holds bin
\* k's own value dt * sum_n signal[n]*exp(-i*2*pi*k*n/N).
C3_OrdenYPares ==
    HechaTransformada =>
        LET N == ALen(m_senal1)
        IN  /\ DOMAIN salida.frecuencias = 0..(N - 1)
            /\ DOMAIN salida.espectro = 0..(N - 1)
            /\ \A j \in 0..(N - 2) :
                 RatLess(salida.frecuencias[j], salida.frecuencias[j + 1])
            /\ \A k \in 0..(N - 1) :
                 LET pos == {j \in 0..(N - 1) :
                               salida.frecuencias[j] = BinFrecuencia(k, N, m_dt)}
                 IN  /\ Cardinality(pos) = 1
                     /\ \A j \in pos :
                          CxEq(salida.espectro[j], BinValor(m_senal1, m_dt, k))

\* an even length with a negative lowest frequency and a bin that is not real
C3_Witness ==
    /\ HechaTransformada
    /\ ALen(m_senal1) = 4
    /\ salida.frecuencias[0] = BinFrecuencia(2, 4, m_dt)
    /\ \E j \in 0..3 : ~CxIsReal(salida.espectro[j])

\* sum over the bins of |espectro[j]|^2, and sum over the samples of s[n]^2
EnergiaEspectro(espectro) ==
    CxSuma([j \in DOMAIN espectro |-> CxMul(espectro[j], CxConj(espectro[j]))],
           0, ALen(espectro) - 1)

EnergiaSenal(s) ==
    RatSuma([n \in DOMAIN s |-> RatMul(s[n], s[n])], 0, ALen(s) - 1)

\* C6 as stated: the sum over the bins of |spectrum[k]|^2 * dt equals the
\* time-domain energy sum_n |signal[n]|^2 * dt.
C6_ParsevalConDt ==
    HechaTransformada =>
        CxEq(CxScale(m_dt, EnergiaEspectro(salida.espectro)),
             CxRat(ALen(m_senal1), RatMul(EnergiaSenal(m_senal1), m_dt)))

\* C6, amended: the sum over the bins of |spectrum[k]|^2 * df, with the bin
\* spacing df = 1/(N*dt), equals the time-domain energy
\* sum_n |signal[n]|^2 * dt.
C6_ParsevalConDf ==
    HechaTransformada =>
        LET N  == ALen(m_senal1)
            df == RatDiv(RatInt(1), RatMul(RatInt(N), m_dt))
        IN  CxEq(CxScale(df, EnergiaEspectro(salida.espectro)),
                 CxRat(N, RatMul(EnergiaSenal(m_senal1), m_dt)))

\* a signal with energy, of a length N with N*dt^2 # 1
C6_Witness ==
    /\ HechaTransformada
    /\ ALen(m_senal1) = 3
    /\ EnergiaSenal(m_senal1) = RatInt(2)
    /\ ~CxIsZero(EnergiaEspectro(salida.espectro))

HechaLinealidad == llamada.f = "verificar_linealidad"

\* C1: with a = 2, b = 3, the signal verificar_linealidad transforms is
\* a*s1 + b*s2, and the spectrum returned for it equals, bin for bin,
\* a*transform(s1) + b*transform(s2): the difference whose largest absolute
\* value is the reported error is zero at every bin.  (Position j of the
\* sorted output holds DFT bin (j - N \div 2) mod N.)
C1_Linealidad ==
    HechaLinealidad =>
        LET N == ALen(m_senal1)
        IN  /\ \A n \in 0..(N - 1) :
                 salida.senal_combinada[n] =
                     RatAdd(RatMul(RatInt(2), m_senal1[n]),
                            RatMul(RatInt(3), m_senal2[n]))
            /\ \A j \in 0..(N - 1) :
                 /\ CxEq(salida.espectro_combinada[j],
                         CxAdd(CxScale(RatInt(2),
                                       BinValor(m_senal1, m_dt, (j - N \div 2) % N)),
                               CxScale(RatInt(3),
                                       BinValor(m_senal2, m_dt, (j - N \div 2) % N))))
                 /\ CxEq(salida.espectro_combinada[j], salida.espectro_lineal[j])
                 /\ CxIsZero(salida.diferencia[j])

\* two signals that are not multiples of one another, and a bin that is
\* not real
C1_Witness ==
    /\ HechaLinealidad
    /\ ALen(m_senal1) = 3
    /\ m_senal1[0] = RatInt(-1) /\ m_senal1[1] = RatInt(1)
    /\ m_senal2[0] = RatInt(1) /\ m_senal2[1] = RatInt(1)
    /\ \E j \in 0..2 : ~CxIsReal(salida.espectro_combinada[j])

HechoDesplazamiento == llamada.f = "verificar_desplazamiento_tiempo"

\* t0 = m*dt for an integer m
EsMultiplo(t0, paso) == RatDiv(t0, paso)[2] = 1

\* C2: for a shift t0 = m*dt, m an integer, the spectrum of the shifted
\* signal computed in verificar_desplazamiento_tiempo equals
\* exp(-i*2*pi*f*t0) * transform(s) at every bin of the sorted axis: the
\* difference whose largest absolute value is the reported error is zero.
C2_DesplazamientoTiempo ==
    (HechoDesplazamiento /\ EsMultiplo(llamada.desplazamiento, m_dt)) =>
        \A j \in DOMAIN m_senal1 :
            /\ CxIsZero(salida.diferencia[j])
            /\ CxIsZero(CxMinus(salida.espectro_desplazado[j],
                                CxTimes(ExpTurns(RatMul(salida.frecuencias[j],
                                                        llamada.desplazamiento)),
                                        salida.espectro[j])))

\* the integer nearest to the rational r (no r explored is a tie)
Redondeo(r) == (2 * r[1] + r[2]) \div (2 * r[2])

\* C8: verificar_desplazamiento_tiempo shifts the signal circularly by
\* round(t0/dt) samples, for every t0, multiple of dt or not, negative or
\* not.
C8_MuestrasRedondeadas ==
    HechoDesplazamiento =>
        salida.senal_desplazada =
            [i \in DOMAIN m_senal1 |->
               m_senal1[(i - Redondeo(RatDiv(llamada.desplazamiento, m_dt)))
                        % ALen(m_senal1)]]

HechoEscalamiento == llamada.f = "verificar_escalamiento_frecuencia"

\* s evaluated at x by linear interpolation between neighbouring samples,
\* 0 outside [t_first, t_last]
ValorInterpolado(malla, s, x) ==
    LET n == ALen(malla)
    IN  IF RatLess(x, malla[0]) \/ RatLess(malla[n - 1], x) THEN RatInt(0)
        ELSE IF \E i \in 0..(n - 1) : malla[i] = x
        THEN s[CHOOSE i \in 0..(n - 1) : malla[i] = x]
        ELSE LET i == CHOOSE h \in 0..(n - 2) :
                          RatLess(malla[h], x) /\ RatLess(x, malla[h + 1])
                 w == RatDiv(RatSub(x, malla[i]),
                             RatSub(malla[i + 1], malla[i]))
             IN  RatAdd(RatMul(RatSub(RatInt(1), w), s[i]), RatMul(w, s[i + 1]))

\* C9: at every grid point tau the scaled signal built in
\* verificar_escalamiento_frecuencia is s evaluated at a*tau by linear
\* interpolation when a*tau lies inside [t_first, t_last], and 0 outside.
C9_SenalEscalada ==
    HechoEscalamiento =>
        \A i \in DOMAIN m_t :
            salida.senal_escalada[i] =
                ValorInterpolado(m_t, m_senal1, RatMul(llamada.factor, m_t[i]))

\* a factor 1/k, and a signal that stretched by k stays inside the window:
\* every grid point tau where s(a*tau) is not 0 is a point of the grid
SoporteDentro(malla, s, paso, a) ==
    /\ a[1] = 1
    /\ \A i \in DOMAIN malla :
         s[i] # RatInt(0) =>
             /\ RatLeq(malla[0],
                       RatAdd(RatDiv(RatSub(malla[i], paso), a), paso))
             /\ RatLeq(RatSub(RatDiv(RatAdd(malla[i], paso), a), paso),
                       malla[ALen(malla) - 1])

\* C4, at the frequency 0, for the factors a = 1/k, where linear
\* interpolation makes the relation exact: the empirical magnitude
\* dt*|sum of scaled samples| equals (1/|a|) * dt*|sum of original samples|,
\* and equals the prediction verificar_escalamiento_frecuencia compares it to.
C4_EscalamientoFrecuenciaCero ==
    (HechoEscalamiento /\ SoporteDentro(m_t, m_senal1, m_dt, llamada.factor)) =>
        LET N        == ALen(m_senal1)
            original == RatMul(m_dt, RatAbs(RatSuma(m_senal1, 0, N - 1)))
            escalada == RatMul(m_dt,
                               RatAbs(RatSuma(salida.senal_escalada, 0, N - 1)))
            previsto == RatMul(RatDiv(RatInt(1), RatAbs(llamada.factor)),
                               original)
        IN  /\ salida.magnitud_escalado_0 = escalada
            /\ escalada = previsto
            /\ salida.magnitud_escalado_0 = salida.magnitud_teorico_0

HechoPulso ==
    llamada.f \in {"generar_pulso_rectangular", "calcular_transformada_fourier"}

\* the endpoints centro - ancho/2 and centro + ancho/2, in exact arithmetic
\* on the values the floats hold
LimitesDelPulso(ancho, centro) ==
    LET mitad == IF FIsZero(ancho) THEN ancho
                 ELSE [ancho EXCEPT !.ex = @ - 1]
    IN  [inferior |-> DSub(centro, mitad), superior |-> DAdd(centro, mitad)]

\* C7: generar_pulso_rectangular returns a signal of the length of the
\* grid whose sample at grid point tau is amplitud exactly when
\* centro - ancho/2 <= tau <= centro + ancho/2, both endpoints included,
\* and 0 otherwise; no step changes the time grid.
C7_PulsoRectangular ==
    /\ [](HechoPulso =>
            LET lim == LimitesDelPulso(FFromRat(llamada.ancho),
                                       FFromRat(llamada.centro))
            IN  /\ DOMAIN m_senal1 = DOMAIN m_t
                /\ \A i \in DOMAIN m_t :
                     m_senal1[i] =
                         IF /\ DSign(DSub(m_t[i], lim.inferior)) >= 0
                            /\ DSign(DSub(m_t[i], lim.superior)) <= 0
                         THEN llamada.amplitud ELSE RatInt(0))
    /\ [][m_t' = m_t]_vars

\* a pulse with a sample on its upper endpoint and a sample outside
C7_Witness ==
    /\ llamada.f = "generar_pulso_rectangular"
    /\ \E i \in DOMAIN m_t :
         /\ FEq(m_t[i], FAdd(FFromRat(llamada.centro),
                             FDiv(FFromRat(llamada.ancho), FFromInt(2))))
         /\ m_senal1[i] = llamada.amplitud
    /\ \E i \in DOMAIN m_t : m_senal1[i] = RatInt(0)

\* main's pulse on main's grid, transformed
EscenarioMain ==
    /\ HechaTransformada
    /\ m_dt = PasoMain
    /\ ALen(m_t) = 1000
    /\ FEq(m_t[0], FFromInt(-5))
    /\ llamada.ancho = RatInt(2)
    /\ llamada.amplitud = RatInt(1)
    /\ llamada.centro = RatInt(0)

\* C5: for the pulse of width 2, amplitude 1, center 0 on main's grid of
\* 1000 points from -5 in steps of dt = 0.01, the spectrum returned at the
\* frequency 0 is dt times the sum of the samples and its magnitude is 2.
C5_ComponenteContinua ==
    EscenarioMain =>
        /\ salida.frecuencia = RatInt(0)
        /\ CxIsReal(salida.espectro)
        /\ CxRe(salida.espectro) = RatMul(m_dt, RatSuma(m_senal1, 0, 999))
        /\ AbsReal(salida.espectro) = RatInt(2)

\* main's scenario, with the pulse's 200 samples
C5_Witness ==
    /\ EscenarioMain
    /\ Cardinality({i \in DOMAIN m_senal1 : m_senal1[i] = RatInt(1)}) = 200
    /\ m_senal1[401] = RatInt(1)
    /\ m_senal1[600] = RatInt(1)

\* the key of the event a step handles
TeclaPulsada(key) == llamada' = [f |-> "navegar", key |-> key]

\* C10: the index starts at 0 and stays in 0..n-1 for n = 5 slides;
\* 'right' sets it to (i+1) mod n and 'left' to (i-1) mod n, each rendering
\* the slide at the new index once; 'q' and any other key leave the index
\* as it is and render nothing.
C10_IndiceDelNavegador ==
    /\ indice = 0
    /\ [](indice \in 0..4 /\ dibujada = indice)
    /\ [][/\ TeclaPulsada("right") =>
               /\ indice' = IF indice = 4 THEN 0 ELSE indice + 1
               /\ dibujada' = indice'
               /\ redibujos' = redibujos + 1
          /\ TeclaPulsada("left") =>
               /\ indice' = IF indice = 0 THEN 4 ELSE indice - 1
               /\ dibujada' = indice'
               /\ redibujos' = redibujos + 1
          /\ ~(TeclaPulsada("right") \/ TeclaPulsada("left")) =>
               /\ indice' = indice
               /\ dibujada' = dibujada
               /\ redibujos' = redibujos]_vars

\* 'left' pressed at the first slide: the last slide is shown
C10_Witness ==
    /\ llamada = [f |-> "navegar", key |-> "left"]
    /\ indice = 4
    /\ dibujada = 4
    /\ redibujos = 2
    /\ figura_abierta

=============================================================================
